---- MODULE Spec2Model ----
(***************************************************************************)
(* A model of marshal's consumer coordination.                             *)
(*                                                                         *)
(* Two layers of the repository are modelled:                              *)
(*   - consumer.go: the per-topic Consumer with its consumerClaim records, *)
(*     the assignment loop (manageClaims), Consume and Terminate;          *)
(*   - claim.go: the self-managing claim object (Release, Consumed,        *)
(*     heartbeat, healthCheck, the three worker loops).                    *)
(* The marshaler and the Kafka broker are collaborators outside the        *)
(* source; they are modelled from their contract.                          *)
(***************************************************************************)
EXTENDS Integers, Sequences, FiniteSets, TLC

\* ------------------------------------------------------------------ bounds
MaxOffset == 2          \* messages the broker ever appends to a partition
MaxTime == 1            \* the clock stops here (unix seconds)
MaxInst == 3            \* consumerClaim objects alive at once
MaxTerminateCalls == 1  \* Terminate calls per Consumer
MaxCtr == 2             \* iterations of a claim's updateOffsetsLoop
MaxPending == 1         \* goroutines of one kind waiting to run, per claim
MaxReleaseCalls == 2    \* Release calls by callers outside the claim
MaxClaims == 1          \* claim objects newClaim constructs, one at a time

\* --------------------------------------------------------------- constants
HeartbeatInterval == 1  \* seconds; the model's clock is scaled to it
ChanCap == 100          \* make(chan *proto.Message, 100)
CyclesLimit == 3        \* cyclesBehind >= 3
HistoryLen == 10        \* offsetCurrentHistory [10]int64

Consumers == {1, 2}     \* Consumer objects of one group
PartIDs == {0, 1}       \* partition ids a topic may have
Insts == 1..MaxInst

CbAggressive == "CbAggressive"
CbBalanced == "CbBalanced"

VARIABLES
    \* clock, broker and marshaler
    now,          \* time.Now().Unix()
    bEarliest,    \* broker: earliest valid offset per partition
    bLatest,      \* broker: offset of the next message produced
    committed,    \* marshaler: the group's committed cursor per partition
    mHolder,      \* marshaler: Consumer of the last claim, 0 if none
    mLastHb,      \* marshaler: time of that claim's last heartbeat
    lim,          \* the bounds of the exploration, fixed by the initial state
    \* Consumer objects
    group,        \* Consumers constructed by NewConsumer
    partitions,   \* Consumer.partitions
    behavior,     \* Consumer.behavior
    claims,       \* Consumer.claims: partID -> consumerClaim (0: absent)
    claimsNil,    \* Consumer.claims == nil
    cc,           \* the consumerClaim objects
    mgr,          \* the manageClaims goroutine of each Consumer
    app,          \* the application's Consume call of each Consumer
    hbPending,    \* heartbeat goroutines started by Consume, not yet run
                  \* (inst: the consumerClaim each was started for)
    \* history, per consumerClaim
    relCalls,     \* ReleasePartition calls issued for the claim
    relOff,       \* offset passed to the last ReleasePartition call
    lastRet,      \* offset of the last message of the claim Consume returned
    terminateCalls, \* Terminate calls per Consumer
    \* the claim object of claim.go, its goroutines and its callers
    obj,          \* the fields of the claim
    kw,           \* its workers: offset updater, health checker, pump
    kgo,          \* goroutines started with go, not yet running
    krel,         \* 1 while a Release holds the read lock before the RPC
    kapp,         \* the caller taking messages and calling Consumed
    kh            \* history: calls made on and by the claim

vars == <<lim, now, bEarliest, bLatest, committed, mHolder, mLastHb, group,
          partitions, behavior, claims, claimsNil, cc, mgr, app, hbPending,
          relCalls, relOff, lastRet, terminateCalls, obj, kw, kgo, krel, kapp,
          kh>>

brokerVars == <<bEarliest, bLatest>>
marshalVars == <<committed, mHolder, mLastHb>>
kvars == <<obj, kw, kgo, krel, kapp, kh>>
confVars == <<lim, group, partitions, behavior, kvars>>
consumerVars == <<lim, group, partitions, behavior, claims, claimsNil, cc,
                  mgr, app, hbPending, relCalls, relOff, lastRet,
                  terminateCalls>>
histVars == <<relCalls, relOff, lastRet>>

\* ----------------------------------------------------------------- helpers
Parts == 0..(partitions - 1)

\* the bounds of the exploration
Limits(time, log0, log1, term) ==
    [time |-> time, log |-> (0 :> log0 @@ 1 :> log1), term |-> term,
     upd |-> 0, rel |-> 0, stop |-> ChanCap + 1]

\* the same for a claim object: upd bounds the iterations of its
\* updateOffsetsLoop and rel the Release calls of outside callers; stop is
\* the offset at which the caller of the claim stops taking messages
ClaimLimits(time, log0, upd, rel) ==
    [time |-> time, log |-> (0 :> log0 @@ 1 :> 0), term |-> 0,
     upd |-> upd, rel |-> rel, stop |-> ChanCap + 1]

StallAfter == 2

StopBound == lim.stop

TimeBound == lim.time

CtrBound == lim.upd

ReleaseBound == lim.rel

LogBound(p) == lim.log[p]

TerminateBound == lim.term

RECURSIVE Perms(_)
Perms(S) ==
    IF S = {} THEN {<<>>}
    ELSE UNION {{<<x>> \o p : p \in Perms(S \ {x})} : x \in S}

Range(s) == {s[k] : k \in 1..Len(s)}

NoClaim ==
    [owner |-> 0, partID |-> 0, claimed |-> 0, lastHeartbeat |-> 0,
     messages |-> <<>>, cyclesBehind |-> 0, offsetCurrent |-> 0,
     offsetEarliest |-> 0, offsetLatest |-> 0, startOffset |-> 0,
     startTime |-> 0, pump |-> "none", fetchPos |-> 0, streak |-> 0]

\* the claims held in Consumer c's mapping
Held(c) == {claims[c][p] : p \in PartIDs} \ {0}

\* len(c.claims); a nil map has length 0
GetCurrentLoad(c) == Cardinality(Held(c))

\* the Consumer lock is held across steps only by Consume (lines 504-529)
LockFree(c) == app[c].pc # "locked"

\* visited, skipped, added and failed are the history of the latest claim
\* sweep: the partitions its loop came to, how many of them it passed over as
\* present in the mapping, how many it inserted, and whether a
\* tryClaimPartition of it returned false, lost whether one of them returned
\* false because ClaimPartition did; lockedCalls names the marshaler calls
\* the Consumer has made so far with c.lock held
MgrIdle ==
    [pc |-> "top", claimCount |-> 0, unclaim |-> <<>>, relIdx |-> 1,
     offset |-> 0, i |-> 0, claim |-> 0, nextOffsetUpdate |-> 0,
     visited |-> <<>>, skipped |-> 0, added |-> 0, failed |-> FALSE,
     lost |-> FALSE, lockedCalls |-> {}]

NoMsg == [Partition |-> 0, Offset |-> 0, inst |-> 0]

\* taken: the messages the scan of the running Consume call has dequeued
AppIdle == [pc |-> "scan", msg |-> NoMsg, taken |-> {}]

\* the claim object before newClaim
NoObj ==
    [gen |-> 0, claimed |-> 0, lastHeartbeat |-> 0, messages |-> <<>>,
     cyclesBehind |-> 0, offsetCurrent |-> 0, offsetEarliest |-> 0,
     offsetLatest |-> 0,
     offsetCurrentHistory |-> [n \in 0..(HistoryLen - 1) |-> 0],
     offsetLatestHistory |-> [n \in 0..(HistoryLen - 1) |-> 0],
     fetchPos |-> 0, streak |-> 0]

\* ctr: the counter of updateOffsetsLoop; early, late: what its last
\* GetPartitionOffsets returned; cv, pv: the velocities healthCheck read,
\* each as <<max - min, count>>
NoWorkers ==
    [offsets |-> "none", ctr |-> 0, early |-> 0, late |-> 0,
     health |-> "none", cv |-> <<0, 0>>, pv |-> <<0, 0>>,
     pump |-> "none"]

\* releases: Release calls that ran their compare-and-swap; wins: those
\* whose swap succeeded; rpcs: ReleasePartition calls; falseNoRpc: Release
\* calls that returned false without calling the marshaler; external:
\* Release calls by outside callers; setup: whether setup completed
NoHistory ==
    [releases |-> 0, wins |-> 0, rpcs |-> 0, falseNoRpc |-> 0,
     external |-> 0, setup |-> FALSE, expired |-> FALSE]

\* a consumerClaim nothing refers to any more is garbage: its pump has
\* returned and neither a mapping, nor manageClaims, nor a message in the
\* hands of Consume names it
Referenced(i, cl, m, a) ==
    \E c \in Consumers :
       \/ \E p \in PartIDs : cl[c][p] = i
       \/ i \in Range(m[c].unclaim)
       \/ m[c].claim = i
       \/ a[c].msg.inst = i

Collect(k, cl, m, a) ==
    [i \in Insts |->
       IF k[i].owner # 0 /\ k[i].pump = "exited" /\ ~Referenced(i, cl, m, a)
       THEN NoClaim ELSE k[i]]

\* every goroutine of every Consumer has returned
Quiescent ==
    /\ \A c \in group : claimsNil[c] /\ mgr[c].pc = "exit"
    /\ \A i \in Insts : cc[i].pump \in {"none", "exited"}
    /\ hbPending = {}
    /\ \A w \in {"offsets", "health", "pump"} : kw[w] \in {"none", "exited"}
    /\ kgo.release = 0 /\ kgo.heartbeat = 0 /\ krel = 0

\* ------------------------------------------------------------------- Init
InitCommon ==
    /\ now = 0
    /\ bEarliest = [p \in PartIDs |-> 0]
    /\ bLatest = [p \in PartIDs |-> 0]
    /\ committed = [p \in PartIDs |-> 0]
    /\ mHolder = [p \in PartIDs |-> 0]
    /\ mLastHb = [p \in PartIDs |-> 0]
    /\ claims = [c \in Consumers |-> [p \in PartIDs |-> 0]]
    /\ claimsNil = [c \in Consumers |-> FALSE]
    /\ cc = [i \in Insts |-> NoClaim]
    /\ mgr = [c \in Consumers |-> MgrIdle]
    /\ app = [c \in Consumers |-> AppIdle]
    /\ hbPending = {}
    /\ relCalls = [i \in Insts |-> 0]
    /\ relOff = [i \in Insts |-> 0]
    /\ lastRet = [i \in Insts |-> -1]
    /\ terminateCalls = [c \in Consumers |-> 0]
    /\ obj = NoObj
    /\ kw = NoWorkers
    /\ kgo = [release |-> 0, heartbeat |-> 0]
    /\ krel = 0
    /\ kapp = [pc |-> "idle", off |-> 0]
    /\ kh = NoHistory

Behaviors == {[c \in Consumers |-> b] : b \in {CbAggressive, CbBalanced}}

\* one Consumer on a topic of one partition, followed along three slices:
\* everything at once, a longer stretch of time, and repeated Terminate
Init ==
    /\ InitCommon
    /\ lim \in {Limits(MaxTime, MaxOffset, 0, MaxTerminateCalls),
                Limits(MaxTime + 1, MaxOffset - 1, 0, 0),
                Limits(0, MaxOffset - 1, 0, MaxTerminateCalls + 1)}
    /\ group = {1}
    /\ partitions = 1
    /\ behavior \in Behaviors

\* one Consumer on a topic of two partitions: a busy and an idle partition
\* over time, two busy partitions, and Terminate on an idle topic
WideInit ==
    /\ InitCommon
    /\ lim \in {Limits(MaxTime, MaxOffset, 0, 0),
                Limits(0, MaxOffset - 1, MaxOffset - 1, 0),
                Limits(0, MaxOffset - 1, 0, MaxTerminateCalls)}
    /\ group = {1}
    /\ partitions = 2
    /\ behavior \in Behaviors

\* a claim object of claim.go on partition 0, its marshaler client being 1
ClaimInit ==
    /\ InitCommon
    /\ lim \in {ClaimLimits(MaxTime + 1, 0, 0, MaxReleaseCalls),
                ClaimLimits(0, MaxOffset, 0, MaxReleaseCalls - 1),
                ClaimLimits(0, MaxOffset - 1, MaxCtr, 0)}
    /\ group = {}
    /\ partitions = 1
    /\ behavior = [c \in Consumers |-> CbAggressive]

\* two Consumers of one group on a topic of one partition: the race for an
\* idle partition over time, a busy partition, and Terminate
GroupInit ==
    /\ InitCommon
    /\ lim \in {Limits(MaxTime + 1, 0, 0, 0),
                Limits(MaxTime, MaxOffset - 1, 0, 0),
                Limits(0, 0, 0, MaxTerminateCalls)}
    /\ group = {1, 2}
    /\ partitions = 1
    /\ behavior \in Behaviors

\* a Consumer followed over several health sweeps: a fresh Consumer that
\* claims, is truncated under and terminates, and a Consumer two seconds into
\* its life that claimed partition 0 at time 0, took the first of three
\* messages and has its next health sweep due
SweepTime == 4
SweepBacklog == 3

MidLifeClaim ==
    [owner |-> 1, partID |-> 0, claimed |-> 1, lastHeartbeat |-> 1,
     messages |-> <<1, 2>>, cyclesBehind |-> 0, offsetCurrent |-> 1,
     offsetEarliest |-> 0, offsetLatest |-> SweepBacklog, startOffset |-> 0,
     startTime |-> 0, pump |-> "check", fetchPos |-> SweepBacklog,
     streak |-> 0]

MidLifeInit ==
    /\ now = 2
    /\ bEarliest = [p \in PartIDs |-> 0]
    /\ bLatest = [p \in PartIDs |-> IF p = 0 THEN SweepBacklog ELSE 0]
    /\ committed = [p \in PartIDs |-> 0]
    /\ mHolder = [p \in PartIDs |-> IF p = 0 THEN 1 ELSE 0]
    /\ mLastHb = [p \in PartIDs |-> 0]
    /\ claims = [c \in Consumers |->
                   [p \in PartIDs |-> IF c = 1 /\ p = 0 THEN 1 ELSE 0]]
    /\ claimsNil = [c \in Consumers |-> FALSE]
    /\ cc = [i \in Insts |-> IF i = 1 THEN MidLifeClaim ELSE NoClaim]
    /\ mgr = [c \in Consumers |->
                IF c = 1
                THEN [MgrIdle EXCEPT !.claimCount = 1, !.i = 1,
                                     !.visited = <<0>>, !.skipped = 1,
                                     !.lockedCalls = {"GetPartitionOffsets"},
                                     !.nextOffsetUpdate = 2]
                ELSE MgrIdle]
    /\ app = [c \in Consumers |-> AppIdle]
    /\ hbPending = {}
    /\ relCalls = [i \in Insts |-> 0]
    /\ relOff = [i \in Insts |-> 0]
    /\ lastRet = [i \in Insts |-> IF i = 1 THEN 0 ELSE -1]
    /\ terminateCalls = [c \in Consumers |-> 0]
    /\ obj = NoObj
    /\ kw = NoWorkers
    /\ kgo = [release |-> 0, heartbeat |-> 0]
    /\ krel = 0
    /\ kapp = [pc |-> "idle", off |-> 0]
    /\ kh = NoHistory
    /\ lim = Limits(SweepTime, SweepBacklog, 0, 0)
    /\ behavior = [c \in Consumers |-> CbAggressive]

SweepInit ==
    /\ \/ /\ InitCommon
          /\ lim = Limits(0, MaxOffset - 1, 0, MaxTerminateCalls)
          /\ behavior \in Behaviors
       \/ MidLifeInit
    /\ group = {1}
    /\ partitions = 1

\* ------------------------------------------- marshaler and broker contract
\* a claim is live while its last heartbeat is at most one interval old
MarshalHeld(p) == mHolder[p] # 0 /\ mLastHb[p] >= now - HeartbeatInterval

\* GetPartitionClaim(topic, p).LastHeartbeat > 0
GetPartitionClaimHeld(p) == MarshalHeld(p)

\* ClaimPartition(topic, p) by Consumer c returning ok: at most one winner
ClaimPartition(c, p, ok) ==
    /\ ok => ~MarshalHeld(p)
    /\ mHolder' = IF ok THEN [mHolder EXCEPT ![p] = c] ELSE mHolder
    /\ mLastHb' = IF ok THEN [mLastHb EXCEPT ![p] = now] ELSE mLastHb

\* Heartbeat(topic, p, off) by c succeeds only on a live claim of c
HeartbeatOK(c, p, err) == err = FALSE => (mHolder[p] = c /\ MarshalHeld(p))

HbCommitted(p, off, err) ==
    IF err THEN committed ELSE [committed EXCEPT ![p] = off]

HbLastHb(p, err) == IF err THEN mLastHb ELSE [mLastHb EXCEPT ![p] = now]

\* ReleasePartition(topic, p, off) by c: frees the partition when c holds it
ReleaseFrees(c, p, err) == ~err /\ mHolder[p] = c

ReleaseOK(c, p, err) == err = FALSE => mHolder[p] = c

\* the broker appends a message to partition p
Produce(p) ==
    /\ p \in Parts
    /\ ~Quiescent
    /\ bLatest[p] < LogBound(p)
    /\ bLatest' = [bLatest EXCEPT ![p] = @ + 1]
    /\ UNCHANGED <<now, bEarliest, marshalVars, confVars, claims, claimsNil,
                   cc, mgr, app, hbPending, histVars, terminateCalls>>

\* the broker's retention deletes the oldest message of partition p
Truncate(p) ==
    /\ p \in Parts
    /\ ~Quiescent
    /\ bEarliest[p] < bLatest[p]
    /\ bEarliest' = [bEarliest EXCEPT ![p] = @ + 1]
    /\ UNCHANGED <<now, bLatest, marshalVars, confVars, claims, claimsNil,
                   cc, mgr, app, hbPending, histVars, terminateCalls>>

\* a second passes
Tick ==
    /\ now < TimeBound
    /\ ~Quiescent
    /\ now' = now + 1
    /\ UNCHANGED <<brokerVars, marshalVars, confVars, claims, claimsNil, cc,
                   mgr, app, hbPending, histVars, terminateCalls>>

\* --------------------------------------------- consumerClaim.messagePump
\* the loop head: the pump exits once the claim is no longer claimed
PumpCheck(i) ==
    /\ cc[i].pump = "check"
    /\ cc' = Collect([cc EXCEPT ![i].pump =
                        IF cc[i].claimed # 1 THEN "exited" ELSE "fetch"],
                     claims, mgr, app)
    /\ UNCHANGED <<now, brokerVars, marshalVars, confVars, claims, claimsNil,
                   mgr, app, hbPending, histVars, terminateCalls>>

\* what c.consumer.Consume() returns at position pos of partition p
FetchOutOfRange(p, pos) == pos < bEarliest[p] \/ pos > bLatest[p]

FetchMessage(p, pos) == bEarliest[p] <= pos /\ pos < bLatest[p]

\* one c.consumer.Consume() and what the pump does with its result
PumpFetch(i) ==
    /\ cc[i].pump = "fetch"
    /\ \/ /\ FetchOutOfRange(cc[i].partID, cc[i].fetchPos)
          /\ cc' = Collect([cc EXCEPT ![i].claimed = 0, ![i].pump = "exited"],
                           claims, mgr, app)
       \/ /\ FetchMessage(cc[i].partID, cc[i].fetchPos)
          /\ Len(cc[i].messages) < ChanCap
          /\ cc' = [cc EXCEPT ![i].messages = Append(@, cc[i].fetchPos),
                              ![i].fetchPos = @ + 1,
                              ![i].pump = "check"]
       \/ \* any other error: sleep a second and go round
          /\ cc' = [cc EXCEPT ![i].pump = "check"]
    /\ UNCHANGED <<now, brokerVars, marshalVars, confVars, claims, claimsNil,
                   mgr, app, hbPending, histVars, terminateCalls>>

\* ------------------------------------------------- Consumer.manageClaims
\* entering claimPartitions: offset := rand.Intn(c.partitions), i := 0
StartClaimSweep(m, off) ==
    [m EXCEPT !.pc = "claim", !.offset = off, !.i = 0, !.unclaim = <<>>,
              !.relIdx = 1, !.visited = <<>>, !.skipped = 0, !.added = 0,
              !.failed = FALSE, !.lost = FALSE]

\* the loop head: stop when terminated, else count the claims and see
\* whether the periodic part (offset refresh and health sweep) is due
ManageTop(c) ==
    /\ mgr[c].pc = "top"
    /\ LockFree(c)
    /\ IF claimsNil[c]
       THEN mgr' = [mgr EXCEPT ![c].pc = "exit"]
       ELSE IF now >= mgr[c].nextOffsetUpdate
            THEN mgr' = [mgr EXCEPT ![c].pc = "update",
                                    ![c].claimCount = GetCurrentLoad(c)]
            ELSE \E off \in Parts :
                   mgr' = [mgr EXCEPT
                             ![c] = StartClaimSweep(
                                [mgr[c] EXCEPT !.claimCount = GetCurrentLoad(c)],
                                off)]
    /\ UNCHANGED <<now, brokerVars, marshalVars, confVars, claims, claimsNil,
                   cc, app, hbPending, histVars, terminateCalls>>

\* Consumer.updateOffsets: refresh early/late of the claims, stopping at the
\* first GetPartitionOffsets error (the map order is arbitrary, so any subset
\* of the claims may have been refreshed before an error)
Consumer_updateOffsets(c) ==
    /\ mgr[c].pc = "update"
    /\ LockFree(c)
    /\ \E U \in SUBSET Held(c) :
         cc' = [i \in Insts |->
                  IF i \in U
                  THEN [cc[i] EXCEPT !.offsetEarliest = bEarliest[cc[i].partID],
                                     !.offsetLatest = bLatest[cc[i].partID]]
                  ELSE cc[i]]
    /\ mgr' = [mgr EXCEPT ![c].pc = "health",
                          ![c].nextOffsetUpdate = now + HeartbeatInterval,
                          ![c].lockedCalls =
                             IF Held(c) = {} THEN @
                             ELSE @ \cup {"GetPartitionOffsets"}]
    /\ UNCHANGED <<now, brokerVars, marshalVars, confVars, claims, claimsNil,
                   app, hbPending, histVars, terminateCalls>>

\* secondsBehind > HeartbeatInterval*2, with velocity = (cur-start)/(now-t0)
\* and secondsBehind = (latest-cur)/velocity, compared without rounding
Behind(k) ==
    LET a == k.offsetCurrent - k.startOffset
        b == now - k.startTime
        d == k.offsetLatest - k.offsetCurrent
    IN  a > 0 /\ d * b > (HeartbeatInterval * 2) * a

\* how getUnhealthyClaims sees one claim
HealthClass(k) ==
    IF k.claimed = 0 THEN "released"
    ELSE IF k.offsetCurrent >= k.offsetLatest THEN "skip"
    ELSE IF k.offsetCurrent = k.startOffset \/ now = k.startTime THEN "skip"
    ELSE IF Behind(k) THEN "behind"
    ELSE "ok"

CyclesAfter(k) ==
    CASE HealthClass(k) = "behind" -> k.cyclesBehind + 1
      [] HealthClass(k) = "ok" -> 0
      [] OTHER -> k.cyclesBehind

\* history: the number of checks in a row, up to the latest, that found the
\* claim behind; a check that finds it caught up or keeping pace ends the run
StreakAfter(k) ==
    CASE HealthClass(k) = "behind" -> k.streak + 1
      [] HealthClass(k) = "ok" -> 0
      [] k.claimed = 1 /\ k.offsetCurrent >= k.offsetLatest -> 0
      [] OTHER -> k.streak

Unhealthy(k) ==
    \/ HealthClass(k) = "released"
    \/ HealthClass(k) = "behind" /\ CyclesAfter(k) >= CyclesLimit

\* Consumer.getUnhealthyClaims, and the test len(unclaimPartitions) > 0
getUnhealthyClaims(c) ==
    /\ mgr[c].pc = "health"
    /\ LockFree(c)
    /\ cc' = [i \in Insts |->
                IF i \in Held(c)
                THEN [cc[i] EXCEPT !.cyclesBehind = CyclesAfter(cc[i]),
                                   !.streak = StreakAfter(cc[i])]
                ELSE cc[i]]
    /\ LET bad == {i \in Held(c) : Unhealthy(cc[i])}
       IN  IF bad = {}
           THEN \E off \in Parts :
                  mgr' = [mgr EXCEPT ![c] = StartClaimSweep(mgr[c], off)]
           ELSE \E list \in Perms(bad) :
                  mgr' = [mgr EXCEPT ![c].pc = "flip", ![c].unclaim = list]
    /\ UNCHANGED <<now, brokerVars, marshalVars, confVars, claims, claimsNil,
                   app, hbPending, histVars, terminateCalls>>

\* maxToRelease := claimCount / 2
MaxToRelease(claimCount) == claimCount \div 2

\* the claims the locked loop of lines 382-393 unclaims
Flipped(c) ==
    {mgr[c].unclaim[k] :
        k \in 1..(IF MaxToRelease(mgr[c].claimCount) < Len(mgr[c].unclaim)
                  THEN MaxToRelease(mgr[c].claimCount)
                  ELSE Len(mgr[c].unclaim))}

\* kill the message pumps, unclaim internally and delete from the mapping
FlipUnhealthy(c) ==
    /\ mgr[c].pc = "flip"
    /\ LockFree(c)
    /\ cc' = [i \in Insts |->
                IF i \in Flipped(c) THEN [cc[i] EXCEPT !.claimed = 0]
                ELSE cc[i]]
    /\ claims' = [claims EXCEPT ![c] =
                    [p \in PartIDs |->
                       IF \E i \in Flipped(c) : cc[i].partID = p
                       THEN 0 ELSE claims[c][p]]]
    /\ mgr' = [mgr EXCEPT ![c].pc = "release", ![c].relIdx = 1]
    /\ UNCHANGED <<now, brokerVars, marshalVars, confVars, claimsNil, app,
                   hbPending, histVars, terminateCalls>>

\* the claims the loop of lines 397-401 calls ReleasePartition for
ReleaseList(c) == mgr[c].unclaim

\* one c.marshal.ReleasePartition(claim.topic, claim.partID, offsetCurrent)
ReleaseUnhealthy(c) ==
    /\ mgr[c].pc = "release"
    /\ mgr[c].relIdx <= Len(ReleaseList(c))
    /\ LET i == ReleaseList(c)[mgr[c].relIdx]
           p == cc[i].partID
           off == cc[i].offsetCurrent
       IN  \E err \in BOOLEAN :
             /\ ReleaseOK(c, p, err)
             /\ mHolder' = IF ReleaseFrees(c, p, err)
                           THEN [mHolder EXCEPT ![p] = 0] ELSE mHolder
             /\ committed' = IF ReleaseFrees(c, p, err)
                             THEN [committed EXCEPT ![p] = off] ELSE committed
             /\ relCalls' = [relCalls EXCEPT ![i] = @ + 1]
             /\ relOff' = [relOff EXCEPT ![i] = off]
    /\ IF mgr[c].relIdx < Len(ReleaseList(c))
       THEN mgr' = [mgr EXCEPT ![c].relIdx = @ + 1]
       ELSE \E o \in Parts :
              mgr' = [mgr EXCEPT ![c] = StartClaimSweep(mgr[c], o)]
    /\ cc' = Collect(cc, claims, mgr', app)
    /\ UNCHANGED <<now, brokerVars, mLastHb, confVars, claims, claimsNil,
                   app, hbPending, lastRet, terminateCalls>>

\* ---------------------------------- claimPartitions and tryClaimPartition
\* a loop that stays on the partition it started at
SweepFirst(c) == mgr[c].offset % partitions

\* partID := (i + offset) % c.partitions
SweepPart(c) == (mgr[c].i + mgr[c].offset) % partitions

\* a free slot for claim := &consumerClaim{...}
FreeInsts == {i \in Insts : cc[i].owner = 0}

NewInst == CHOOSE i \in FreeInsts : \A j \in FreeInsts : i <= j

\* tryClaimPartition returned false: the loop continues with the next i
\* a failure that is passed over: the construction of a consumerClaim that
\* exists goes on to its first Heartbeat
TryIgnored(m) ==
    IF m.claim = 0
    THEN [m EXCEPT !.pc = "claim", !.i = @ + 1, !.failed = TRUE]
    ELSE [m EXCEPT !.pc = "try_hb"]

TryFailed(m) ==
    [m EXCEPT !.pc = "claim", !.i = @ + 1, !.claim = 0, !.failed = TRUE]

\* a loop that goes on after a success whatever the behavior
TryContinues(c, m) == [m EXCEPT !.pc = "claim", !.i = @ + 1, !.claim = 0]

\* tryClaimPartition returned true: Balanced breaks out of the loop
TrySucceeded(c, m) ==
    IF behavior[c] = CbBalanced
    THEN [m EXCEPT !.pc = "top", !.claim = 0]
    ELSE [m EXCEPT !.pc = "claim", !.i = @ + 1, !.claim = 0]

\* one turn of the loop of claimPartitions up to GetPartitionClaim: skip a
\* partition present in the mapping or claimed by somebody, or leave the
\* loop (and sleep) after the last partition
claimPartitions(c) ==
    /\ mgr[c].pc = "claim"
    /\ LockFree(c)
    /\ IF mgr[c].i >= partitions
       THEN mgr' = [mgr EXCEPT ![c].pc = "top"]
       ELSE LET m == [mgr[c] EXCEPT !.visited = Append(@, SweepPart(c))]
            IN  IF claims[c][SweepPart(c)] # 0
                THEN mgr' = [mgr EXCEPT ![c] =
                               [m EXCEPT !.i = @ + 1, !.skipped = @ + 1]]
                ELSE IF GetPartitionClaimHeld(SweepPart(c))
                     THEN mgr' = [mgr EXCEPT ![c] = TryFailed(m)]
                     ELSE mgr' = [mgr EXCEPT ![c] =
                                    [m EXCEPT !.pc = "try_offsets"]]
    /\ UNCHANGED <<now, brokerVars, marshalVars, confVars, claims, claimsNil,
                   cc, app, hbPending, histVars, terminateCalls>>

\* GetPartitionOffsets and the construction of the consumerClaim
tryClaim_offsets(c) ==
    /\ mgr[c].pc = "try_offsets"
    /\ \/ \* GetPartitionOffsets failed
          /\ mgr' = [mgr EXCEPT ![c] = TryFailed(mgr[c])]
          /\ UNCHANGED <<cc, histVars>>
       \/ /\ FreeInsts # {}
          /\ LET p == SweepPart(c) IN
             cc' = [cc EXCEPT ![NewInst] =
                      [NoClaim EXCEPT !.owner = c, !.partID = p,
                                      !.claimed = 1,
                                      !.offsetEarliest = bEarliest[p],
                                      !.offsetLatest = bLatest[p],
                                      !.offsetCurrent = committed[p]]]
          /\ mgr' = [mgr EXCEPT ![c].pc = "try_claim", ![c].claim = NewInst]
          /\ relCalls' = [relCalls EXCEPT ![NewInst] = 0]
          /\ relOff' = [relOff EXCEPT ![NewInst] = 0]
          /\ lastRet' = [lastRet EXCEPT ![NewInst] = -1]
    /\ UNCHANGED <<now, brokerVars, marshalVars, confVars, claims, claimsNil,
                   app, hbPending, terminateCalls>>

\* ClaimPartition and, when it is won, the fast-forward to offsetEarliest
tryClaim_claim(c) ==
    /\ mgr[c].pc = "try_claim"
    /\ LET i == mgr[c].claim
           p == cc[i].partID
       IN  \E ok \in BOOLEAN :
             /\ ClaimPartition(c, p, ok)
             /\ IF ok
                THEN /\ cc' = [cc EXCEPT ![i].offsetCurrent =
                                 IF @ < cc[i].offsetEarliest
                                 THEN cc[i].offsetEarliest ELSE @]
                     /\ mgr' = [mgr EXCEPT ![c].pc = "try_hb"]
                ELSE /\ cc' = [cc EXCEPT ![i] = NoClaim]
                     /\ mgr' = [mgr EXCEPT ![c] =
                                  TryFailed([mgr[c] EXCEPT !.lost = TRUE])]
    /\ UNCHANGED <<now, brokerVars, committed, confVars, claims, claimsNil,
                   app, hbPending, histVars, terminateCalls>>

\* the first Heartbeat, the Kafka consumer and the start of the pump
tryClaim_heartbeat(c) ==
    /\ mgr[c].pc = "try_hb"
    /\ LET i == mgr[c].claim
           p == cc[i].partID
           off == cc[i].offsetCurrent
       IN  \E err \in BOOLEAN, consumerErr \in BOOLEAN :
             /\ HeartbeatOK(c, p, err)
             /\ committed' = HbCommitted(p, off, err)
             /\ mLastHb' = HbLastHb(p, err)
             /\ IF err \/ consumerErr
                THEN /\ cc' = [cc EXCEPT ![i] = NoClaim]
                     /\ mgr' = [mgr EXCEPT ![c] = TryFailed(mgr[c])]
                ELSE /\ cc' = [cc EXCEPT ![i].lastHeartbeat = now,
                                         ![i].startOffset = off,
                                         ![i].startTime = now,
                                         ![i].fetchPos = off,
                                         ![i].pump = "check"]
                     /\ mgr' = [mgr EXCEPT ![c].pc = "try_insert"]
    /\ UNCHANGED <<now, brokerVars, mHolder, confVars, claims, claimsNil,
                   app, hbPending, histVars, terminateCalls>>

\* c.claims[partID] = claim, unless the Consumer was terminated meanwhile
tryClaim_insert(c) ==
    /\ mgr[c].pc = "try_insert"
    /\ LockFree(c)
    /\ claims' = IF claimsNil[c] THEN claims
                 ELSE [claims EXCEPT ![c][cc[mgr[c].claim].partID] =
                          mgr[c].claim]
    /\ mgr' = [mgr EXCEPT ![c] =
                 TrySucceeded(c, [mgr[c] EXCEPT !.added =
                                    IF claimsNil[c] THEN @ ELSE @ + 1])]
    /\ cc' = Collect(cc, claims', mgr', app)
    /\ UNCHANGED <<now, brokerVars, marshalVars, confVars, claimsNil, app,
                   hbPending, histVars, terminateCalls>>

\* ----------------------------------------------------- Consumer.Terminate
\* a loop that stops after its first claim
TerminateFirst(c) ==
    IF Held(c) = {} THEN {} ELSE {CHOOSE i \in Held(c) : TRUE}

\* the claims the loop of lines 421-431 flips and releases: a
\* ReleasePartition error is logged and the loop goes on
TerminateClaims(c) == Held(c)

\* a Terminate that leaves the mapping as it is
TerminateKeeps(c) == [nil |-> FALSE, map |-> claims[c]]

\* c.claims = nil (line 434): the mapping and whether it is nil
TerminateMapping(c) == [nil |-> TRUE, map |-> [p \in PartIDs |-> 0]]

Terminate(c) ==
    /\ LockFree(c)
    /\ terminateCalls[c] < TerminateBound
    /\ terminateCalls' = [terminateCalls EXCEPT ![c] = @ + 1]
    /\ \E err \in [TerminateClaims(c) -> BOOLEAN] :
         /\ \A i \in TerminateClaims(c) : ReleaseOK(c, cc[i].partID, err[i])
         /\ LET freed == {cc[i].partID : i \in
                            {j \in TerminateClaims(c) :
                               ReleaseFrees(c, cc[j].partID, err[j])}}
                inst(p) == claims[c][p]
            IN  /\ mHolder' = [p \in PartIDs |->
                                 IF p \in freed THEN 0 ELSE mHolder[p]]
                /\ committed' = [p \in PartIDs |->
                                   IF p \in freed
                                   THEN cc[inst(p)].offsetCurrent
                                   ELSE committed[p]]
    /\ relCalls' = [i \in Insts |->
                      IF i \in TerminateClaims(c)
                      THEN relCalls[i] + 1 ELSE relCalls[i]]
    /\ relOff' = [i \in Insts |->
                    IF i \in TerminateClaims(c)
                    THEN cc[i].offsetCurrent ELSE relOff[i]]
    /\ claims' = [claims EXCEPT ![c] = TerminateMapping(c).map]
    /\ claimsNil' = [claimsNil EXCEPT ![c] = TerminateMapping(c).nil]
    /\ mgr' = [mgr EXCEPT ![c].lockedCalls =
                            IF TerminateClaims(c) = {} THEN @
                            ELSE @ \cup {"ReleasePartition"}]
    /\ cc' = Collect([i \in Insts |->
                        IF i \in TerminateClaims(c)
                        THEN [cc[i] EXCEPT !.claimed = 0]
                        ELSE cc[i]],
                     claims', mgr, app)
    /\ UNCHANGED <<now, brokerVars, mLastHb, confVars, app, hbPending,
                   lastRet>>

\* ------------------------------------------------------- Consumer.Consume
\* the scan of lines 476-485: every claim with a pending message gives one
\* up, and msg is the one taken last
ConsumeScan(c) ==
    /\ app[c].pc = "scan"
    /\ LET ready == {i \in Held(c) : cc[i].messages # <<>>}
           head(i) == [Partition |-> cc[i].partID,
                       Offset |-> Head(cc[i].messages), inst |-> i]
       IN  /\ ready # {}
           /\ \E last \in ready :
                app' = [app EXCEPT ![c] =
                          [pc |-> "got", msg |-> head(last),
                           taken |-> {head(i) : i \in ready}]]
           /\ cc' = [i \in Insts |->
                       IF i \in ready
                       THEN [cc[i] EXCEPT !.messages = Tail(@)]
                       ELSE cc[i]]
    /\ UNCHANGED <<now, brokerVars, marshalVars, confVars, claims, claimsNil,
                   mgr, hbPending, histVars, terminateCalls>>

\* lines 504-510: take the lock, look the partition up, load the flag
ConsumeLookup(c) ==
    /\ app[c].pc = "got"
    /\ LET i == claims[c][app[c].msg.Partition] IN
       IF i # 0 /\ cc[i].claimed = 1
       THEN app' = [app EXCEPT ![c].pc = "locked"]
       ELSE app' = [app EXCEPT ![c] = AppIdle]
    /\ cc' = Collect(cc, claims, mgr, app')
    /\ UNCHANGED <<now, brokerVars, marshalVars, confVars, claims, claimsNil,
                   mgr, hbPending, histVars, terminateCalls>>

\* lines 511-527: advance the cursor, possibly heartbeat, return msg.Value
ConsumeReturn(c) ==
    /\ app[c].pc = "locked"
    /\ app' = [app EXCEPT ![c] = AppIdle]
    /\ LET m == app[c].msg
           i == claims[c][m.Partition]
           beat == cc[i].lastHeartbeat <= now - HeartbeatInterval
       IN  /\ cc' = Collect(
                      [cc EXCEPT ![i].offsetCurrent = m.Offset + 1,
                                 ![i].lastHeartbeat = IF beat THEN now ELSE @],
                      claims, mgr, app')
           /\ hbPending' = IF beat
                           THEN hbPending \cup
                                {[consumer |-> c, Partition |-> m.Partition,
                                  Offset |-> m.Offset, inst |-> i]}
                           ELSE hbPending
           /\ lastRet' = [lastRet EXCEPT ![m.inst] = m.Offset]
    /\ UNCHANGED <<now, brokerVars, marshalVars, confVars, claims, claimsNil,
                   mgr, relCalls, relOff, terminateCalls>>

\* the goroutine of lines 520-524: c.marshal.Heartbeat(topic, part, offset)
ConsumeHeartbeat(h) ==
    /\ h \in hbPending
    /\ hbPending' = hbPending \ {h}
    /\ \E err \in BOOLEAN :
         /\ HeartbeatOK(h.consumer, h.Partition, err)
         /\ committed' = HbCommitted(h.Partition, h.Offset, err)
         /\ mLastHb' = HbLastHb(h.Partition, err)
    /\ UNCHANGED <<now, brokerVars, mHolder, confVars, claims, claimsNil, cc,
                   mgr, app, histVars, terminateCalls>>

\* ------------------------------------------------------------------- Next
\* ================================================================ claim.go
\* the marshaler client the claim object belongs to, and its partition
Me == 1

ClaimPart == 0

WorkersDone ==
    /\ \A w \in {"offsets", "health", "pump"} : kw[w] \in {"none", "exited"}
    /\ kgo.release = 0 /\ kgo.heartbeat = 0 /\ krel = 0
    /\ kapp.pc = "idle"

\* newClaim with setup, for the outcomes that construct a claim: the
\* offsets are read, the partition is claimed, the cursor is fast-forwarded
\* and the first heartbeat is sent; a failed heartbeat or a failed Kafka
\* consumer leaves a claim whose flag is 0 and that has no goroutines.
\* (A failed GetPartitionOffsets or ClaimPartition returns nil and changes
\* nothing.)
newClaim ==
    /\ group = {}
    /\ obj.gen < MaxClaims
    /\ obj.gen = 0 \/ (obj.claimed = 0 /\ WorkersDone)
    /\ ClaimPartition(Me, ClaimPart, TRUE)
    /\ LET oCur == IF committed[ClaimPart] < bEarliest[ClaimPart]
                   THEN bEarliest[ClaimPart] ELSE committed[ClaimPart]
           fresh == [NoObj EXCEPT !.gen = obj.gen + 1,
                                  !.offsetEarliest = bEarliest[ClaimPart],
                                  !.offsetLatest = bLatest[ClaimPart],
                                  !.offsetCurrent = oCur]
       IN  \E hbErr, consErr \in BOOLEAN :
             /\ committed' = HbCommitted(ClaimPart, oCur, hbErr)
             /\ IF hbErr
                THEN /\ obj' = fresh
                     /\ kw' = NoWorkers
                     /\ kh' = NoHistory
                ELSE IF consErr
                THEN /\ obj' = [fresh EXCEPT !.lastHeartbeat = now]
                     /\ kw' = NoWorkers
                     /\ kh' = NoHistory
                ELSE /\ obj' = [fresh EXCEPT !.claimed = 1,
                                             !.lastHeartbeat = now,
                                             !.fetchPos = oCur]
                     /\ kw' = [NoWorkers EXCEPT !.offsets = "loop",
                                                !.health = "loop",
                                                !.pump = "check"]
                     /\ kh' = [NoHistory EXCEPT !.setup = TRUE]
    /\ kapp' = [pc |-> "idle", off |-> 0]
    /\ UNCHANGED <<now, brokerVars, consumerVars, kgo, krel>>

\* a store that does not compare
StoreSwaps(flag) == TRUE

\* atomic.CompareAndSwapInt32(c.claimed, 1, 0): whether it swaps
CasSwaps(flag) == flag = 1

\* a swap that toggles the flag
ToggleResult(flag) == 1 - flag

\* atomic.CompareAndSwapInt32(c.claimed, 1, 0): the flag it leaves
CasResult(flag) == IF flag = 1 THEN 0 ELSE flag

\* Release up to its compare-and-swap, called by an outside caller or as
\* one of the goroutines the claim started with go c.Release()
Release_cas ==
    /\ obj.gen > 0
    /\ \/ /\ kgo.release > 0
          /\ kgo' = [kgo EXCEPT !.release = @ - 1]
          /\ kh' = [kh EXCEPT !.releases = @ + 1,
                              !.wins = IF CasSwaps(obj.claimed)
                                       THEN @ + 1 ELSE @,
                              !.falseNoRpc = IF CasSwaps(obj.claimed)
                                             THEN @ ELSE @ + 1]
       \/ /\ kh.external < ReleaseBound
          /\ kgo' = kgo
          /\ kh' = [kh EXCEPT !.external = @ + 1,
                              !.releases = @ + 1,
                              !.wins = IF CasSwaps(obj.claimed)
                                       THEN @ + 1 ELSE @,
                              !.falseNoRpc = IF CasSwaps(obj.claimed)
                                             THEN @ ELSE @ + 1]
    /\ krel' = IF CasSwaps(obj.claimed) THEN krel + 1 ELSE krel
    /\ obj' = [obj EXCEPT !.claimed = CasResult(obj.claimed)]
    /\ UNCHANGED <<now, brokerVars, marshalVars, consumerVars, kw, kapp>>

\* the rest of a Release that won: ReleasePartition under the read lock
Release_rpc ==
    /\ krel > 0
    /\ \E err \in BOOLEAN :
         /\ ReleaseOK(Me, ClaimPart, err)
         /\ mHolder' = IF ReleaseFrees(Me, ClaimPart, err)
                       THEN [mHolder EXCEPT ![ClaimPart] = 0] ELSE mHolder
         /\ committed' = IF ReleaseFrees(Me, ClaimPart, err)
                         THEN [committed EXCEPT
                                 ![ClaimPart] = obj.offsetCurrent]
                         ELSE committed
    /\ krel' = krel - 1
    /\ kh' = [kh EXCEPT !.rpcs = @ + 1]
    /\ UNCHANGED <<now, brokerVars, mLastHb, consumerVars, obj, kw, kgo,
                   kapp>>

\* a caller receives the next message and calls Consumed with its offset:
\* the atomic load of the flag, before the lock is taken
Consumed_load ==
    /\ kapp.pc = "idle"
    /\ obj.messages # <<>>
    /\ Head(obj.messages) < StopBound
    /\ obj' = [obj EXCEPT !.messages = Tail(@)]
    /\ kapp' = [pc |-> IF obj.claimed # 1 THEN "idle" ELSE "store",
                off |-> Head(obj.messages)]
    /\ UNCHANGED <<now, brokerVars, marshalVars, consumerVars, kw, kgo, krel,
                   kh>>

\* the rest of Consumed: c.offsetCurrent = offset + 1 under the lock
Consumed_store ==
    /\ kapp.pc = "store"
    /\ obj' = [obj EXCEPT !.offsetCurrent = kapp.off + 1]
    /\ kapp' = [kapp EXCEPT !.pc = "idle"]
    /\ UNCHANGED <<now, brokerVars, marshalVars, consumerVars, kw, kgo, krel,
                   kh>>

\* for c.Claimed() of claim.messagePump
messagePump_check ==
    /\ kw.pump = "check"
    /\ kw' = [kw EXCEPT !.pump =
                IF obj.claimed = 1 THEN "fetch" ELSE "exited"]
    /\ UNCHANGED <<now, brokerVars, marshalVars, consumerVars, obj, kgo,
                   krel, kapp, kh>>

\* one c.consumer.Consume() of claim.messagePump and what follows it
messagePump_fetch ==
    /\ kw.pump = "fetch"
    /\ \/ /\ FetchOutOfRange(ClaimPart, obj.fetchPos)
          /\ kgo.release < MaxPending
          /\ kgo' = [kgo EXCEPT !.release = @ + 1]
          /\ kw' = [kw EXCEPT !.pump = "exited"]
          /\ obj' = obj
       \/ /\ FetchMessage(ClaimPart, obj.fetchPos)
          /\ obj' = [obj EXCEPT !.fetchPos = @ + 1]
          /\ kw' = [kw EXCEPT !.pump = "send"]
          /\ kgo' = kgo
       \/ /\ kw' = [kw EXCEPT !.pump = "check"]
          /\ UNCHANGED <<obj, kgo>>
    /\ UNCHANGED <<now, brokerVars, marshalVars, consumerVars, krel, kapp,
                   kh>>

\* c.messages <- msg, which blocks while the channel holds ChanCap messages;
\* msg is the message before the position the Kafka consumer has moved to
messagePump_send ==
    /\ kw.pump = "send"
    /\ Len(obj.messages) < ChanCap
    /\ obj' = [obj EXCEPT !.messages = Append(@, obj.fetchPos - 1)]
    /\ kw' = [kw EXCEPT !.pump = "check"]
    /\ UNCHANGED <<now, brokerVars, marshalVars, consumerVars, kgo, krel,
                   kapp, kh>>

\* for c.Claimed() of updateOffsetsLoop, and the jittered sleep
updateOffsetsLoop ==
    /\ kw.offsets = "loop"
    /\ obj.claimed = 1 => kw.ctr < CtrBound
    /\ kw' = [kw EXCEPT !.offsets =
                IF obj.claimed = 1 THEN "fetch" ELSE "exited"]
    /\ UNCHANGED <<now, brokerVars, marshalVars, consumerVars, obj, kgo,
                   krel, kapp, kh>>

\* updateOffsets(ctr) up to the lock: GetPartitionOffsets
updateOffsets_fetch ==
    /\ kw.offsets = "fetch"
    /\ \/ kw' = [kw EXCEPT !.offsets = "loop", !.ctr = @ + 1]
       \/ kw' = [kw EXCEPT !.offsets = "write",
                           !.early = bEarliest[ClaimPart],
                           !.late = bLatest[ClaimPart]]
    /\ UNCHANGED <<now, brokerVars, marshalVars, consumerVars, obj, kgo,
                   krel, kapp, kh>>

\* a refresh that also moves the cursor up to the earliest offset
updateOffsets_forward ==
    /\ kw.offsets = "write"
    /\ obj' = [obj EXCEPT
                 !.offsetEarliest = kw.early,
                 !.offsetLatest = kw.late,
                 !.offsetCurrent = IF @ < kw.early THEN kw.early ELSE @,
                 !.offsetLatestHistory[kw.ctr % HistoryLen] = kw.late,
                 !.offsetCurrentHistory[kw.ctr % HistoryLen] =
                     obj.offsetCurrent]
    /\ kw' = [kw EXCEPT !.offsets = "loop", !.ctr = @ + 1]
    /\ UNCHANGED <<now, brokerVars, marshalVars, consumerVars, kgo, krel,
                   kapp, kh>>

\* updateOffsets(ctr) under the lock, and ctr++ of the loop
updateOffsets_write ==
    /\ kw.offsets = "write"
    /\ obj' = [obj EXCEPT
                 !.offsetEarliest = kw.early,
                 !.offsetLatest = kw.late,
                 !.offsetLatestHistory[kw.ctr % HistoryLen] = kw.late,
                 !.offsetCurrentHistory[kw.ctr % HistoryLen] =
                     obj.offsetCurrent]
    /\ kw' = [kw EXCEPT !.offsets = "loop", !.ctr = @ + 1]
    /\ UNCHANGED <<now, brokerVars, marshalVars, consumerVars, kgo, krel,
                   kapp, kh>>

\* average(vals) as the pair <<max - min, ct>> over the entries above 0
RECURSIVE MinOf(_)
MinOf(S) ==
    IF Cardinality(S) = 1 THEN CHOOSE x \in S : TRUE
    ELSE LET x == CHOOSE y \in S : TRUE
             m == MinOf(S \ {x})
         IN  IF x < m THEN x ELSE m

RECURSIVE MaxOf(_)
MaxOf(S) ==
    IF Cardinality(S) = 1 THEN CHOOSE x \in S : TRUE
    ELSE LET x == CHOOSE y \in S : TRUE
             m == MaxOf(S \ {x})
         IN  IF x > m THEN x ELSE m

average(vals) ==
    LET idx == {n \in DOMAIN vals : vals[n] > 0}
        set == {vals[n] : n \in idx}
    IN  IF idx = {} THEN <<0, 0>>
        ELSE <<MaxOf(set) - MinOf(set), Cardinality(idx)>>

\* a <= b for two averages, as the float64 comparison decides it
AverageLeq(a, b) ==
    LET da == IF a[2] = 0 THEN 1 ELSE a[2]
        db == IF b[2] = 0 THEN 1 ELSE b[2]
    IN  a[1] * db <= b[1] * da

ConsumerVelocity == average(obj.offsetCurrentHistory)

PartitionVelocity == average(obj.offsetLatestHistory)

\* for c.Claimed() of healthCheckLoop, and the jittered sleep
healthCheckLoop ==
    /\ kw.health = "loop"
    /\ kw' = [kw EXCEPT !.health =
                IF obj.claimed = 1 THEN "cv" ELSE "exited"]
    /\ UNCHANGED <<now, brokerVars, marshalVars, consumerVars, obj, kgo,
                   krel, kapp, kh>>

\* healthCheck before its lock: the two velocities, each under a read lock
healthCheck_velocity ==
    /\ \/ /\ kw.health = "cv"
          /\ kw' = [kw EXCEPT !.health = "pv", !.cv = ConsumerVelocity]
       \/ /\ kw.health = "pv"
          /\ kw' = [kw EXCEPT !.health = "body", !.pv = PartitionVelocity]
    /\ UNCHANGED <<now, brokerVars, marshalVars, consumerVars, obj, kgo,
                   krel, kapp, kh>>

\* what healthCheck decides under the lock
\* an expiry test that allows one interval too many
HealthExpiredLate == obj.lastHeartbeat < now - 2 * HeartbeatInterval

HealthExpired == obj.lastHeartbeat < now - HeartbeatInterval

HealthCaughtUp == obj.offsetCurrent >= obj.offsetLatest

HealthFastEnough == AverageLeq(kw.pv, kw.cv)

\* healthCheck under the lock, and what healthCheckLoop does with its result
healthCheck ==
    /\ kw.health = "body"
    /\ IF HealthExpired
       THEN /\ kgo.release < MaxPending
            /\ kgo' = [kgo EXCEPT !.release = @ + 1]
            /\ obj' = obj
       ELSE IF HealthCaughtUp \/ HealthFastEnough
       THEN /\ kgo.heartbeat < MaxPending
            /\ kgo' = [kgo EXCEPT !.heartbeat = @ + 1]
            /\ obj' = [obj EXCEPT !.cyclesBehind = 0, !.streak = 0]
       ELSE IF obj.cyclesBehind + 1 >= CyclesLimit
       THEN /\ kgo.release < MaxPending
            /\ kgo' = [kgo EXCEPT !.release = @ + 1]
            /\ obj' = [obj EXCEPT !.cyclesBehind = @ + 1, !.streak = @ + 1]
       ELSE /\ kgo.heartbeat < MaxPending
            /\ kgo' = [kgo EXCEPT !.heartbeat = @ + 1]
            /\ obj' = [obj EXCEPT !.cyclesBehind = @ + 1, !.streak = @ + 1]
    /\ kw' = [kw EXCEPT !.health = "loop"]
    /\ kh' = [kh EXCEPT !.expired = HealthExpired]
    /\ UNCHANGED <<now, brokerVars, marshalVars, consumerVars, krel, kapp>>

\* one goroutine started with go c.heartbeat()
heartbeat ==
    /\ kgo.heartbeat > 0
    /\ \E err \in BOOLEAN :
         /\ HeartbeatOK(Me, ClaimPart, err)
         /\ err => kgo.release < MaxPending
         /\ committed' = HbCommitted(ClaimPart, obj.offsetCurrent, err)
         /\ mLastHb' = HbLastHb(ClaimPart, err)
         /\ kgo' = [kgo EXCEPT !.heartbeat = @ - 1,
                               !.release = IF err THEN @ + 1 ELSE @]
    /\ obj' = [obj EXCEPT !.lastHeartbeat = now]
    /\ UNCHANGED <<now, brokerVars, mHolder, consumerVars, kw, krel, kapp,
                   kh>>

ClaimNext ==
    \/ \E p \in PartIDs : Produce(p)
    \/ \E p \in PartIDs : Truncate(p)
    \/ Tick
    \/ newClaim
    \/ Release_cas
    \/ Release_rpc
    \/ Consumed_load
    \/ Consumed_store
    \/ messagePump_check
    \/ messagePump_fetch
    \/ messagePump_send
    \/ updateOffsetsLoop
    \/ updateOffsets_fetch
    \/ updateOffsets_write
    \/ healthCheckLoop
    \/ healthCheck_velocity
    \/ healthCheck
    \/ heartbeat

\* ================================================================= claims
\* the claims of Consumer c that its mapping holds with an active flag
ActiveClaims(c, p) ==
    {i \in Insts : /\ cc[i].owner = c
                   /\ cc[i].partID = p
                   /\ cc[i].claimed = 1
                   /\ ~claimsNil[c]
                   /\ claims[c][p] = i}

\* C1: for every partition, at most one claim across the Consumers of the
\* group has its claimed flag active
C1_AtMostOneOwner ==
    \A p \in PartIDs :
        Cardinality(UNION {ActiveClaims(c, p) : c \in group}) <= 1

\* C2: over the life of a claim, ReleasePartition is invoked at most once
\* for it, whatever sweeps, pump errors and Terminate calls occur
C2_ReleaseAtMostOnce ==
    \A i \in Insts : cc[i].owner # 0 => relCalls[i] <= 1

\* C4: a Consume call removes from the channels of the claims only the
\* message it returns, however many claims have a message pending
C4_NoMessageDropped ==
    \A c \in group :
        app[c].pc \in {"got", "locked"} => app[c].taken = {app[c].msg}

\* C8: a health sweep releases at most floor(claimCount / 2) claims, where
\* claimCount is the number of claims held when the sweep starts
C8_BoundedShedding ==
    \A c \in group :
        mgr[c].pc = "release" =>
            Len(ReleaseList(c)) <= MaxToRelease(mgr[c].claimCount)

\* C5: the offsets Consume returns for one claim are increasing, and the
\* offsetCurrent of a claim never decreases
C5_OrderAndCursor ==
    [][\A i \in Insts :
         /\ (cc[i].owner # 0 /\ lastRet'[i] # lastRet[i])
                => lastRet'[i] > lastRet[i]
         /\ (cc[i].owner # 0 /\ cc'[i].owner # 0)
                => cc'[i].offsetCurrent >= cc[i].offsetCurrent]_vars

\* C3: of the Release calls on one claim exactly one swaps the flag and
\* calls ReleasePartition, and every other one returns false without
\* calling the marshaler
C3_IdempotentRelease ==
    /\ kh.wins <= 1
    /\ kh.rpcs + krel = kh.wins
    /\ kh.falseNoRpc = kh.releases - kh.wins
    /\ (kh.setup /\ kh.releases >= 1) => kh.wins = 1

\* three Release calls have run, one called ReleasePartition and at least
\* one lost while the winner was still before its ReleasePartition
C3_Witness ==
    /\ kh.setup
    /\ kh.releases >= 3
    /\ kh.rpcs = 1
    /\ kh.falseNoRpc = kh.releases - 1

\* C6: a Terminate call leaves every claim of the mapping with its flag
\* released and one more ReleasePartition, issued with its offsetCurrent,
\* whether or not the call succeeds, and leaves the mapping cleared
C6_TerminateReleasesAll ==
    [][\A c \in group :
         terminateCalls'[c] # terminateCalls[c] =>
            /\ \A i \in Held(c) :
                 /\ cc'[i].claimed = 0
                 /\ relCalls'[i] = relCalls[i] + 1
                 /\ relOff'[i] = cc[i].offsetCurrent
            /\ claimsNil'[c]
            /\ GetCurrentLoad(c)' = 0]_vars

\* Terminate has just released two claims, one of them at an offset above
\* 0, and the marshaler refused one of the two releases
C6_Witness ==
    \E c \in group :
        /\ terminateCalls[c] = 1
        /\ claimsNil[c]
        /\ \E i, j \in Insts :
             /\ i # j
             /\ \A n \in {i, j} :
                  /\ cc[n].owner = c
                  /\ cc[n].claimed = 0
                  /\ cc[n].pump \in {"check", "fetch"}
                  /\ relCalls[n] = 1
                  /\ relOff[n] = cc[n].offsetCurrent
             /\ cc[i].offsetCurrent > 0
             /\ mHolder[cc[i].partID] = 0
             /\ committed[cc[i].partID] = cc[i].offsetCurrent
             /\ mHolder[cc[j].partID] = c

\* C7: a Terminate call after the first changes nothing: no flag, no
\* ReleasePartition call, no field of the Consumer or of the marshaler
C7_TerminateIdempotent ==
    [][\A c \in group :
         (terminateCalls'[c] # terminateCalls[c] /\ terminateCalls[c] >= 1)
            => UNCHANGED <<now, brokerVars, marshalVars, confVars, claims,
                           claimsNil, cc, mgr, app, hbPending, histVars>>]_vars

\* Terminate ran twice on a Consumer whose first Terminate released a claim
C7_Witness ==
    \E c \in group :
        /\ terminateCalls[c] >= 2
        /\ claimsNil[c]
        /\ \E i \in Insts : relCalls[i] >= 1

\* C9: the flag of a claim that is released stays released
C9_ReleasedForGood ==
    [][/\ \A i \in Insts :
            (cc[i].owner # 0 /\ cc[i].claimed = 0) => cc'[i].claimed = 0
       /\ (obj.gen > 0 /\ obj.claimed = 0 /\ obj'.gen = obj.gen)
            => obj'.claimed = 0]_vars

\* a partition was claimed again as a new instance while the released
\* instance still exists
C9_Witness ==
    \E i, j \in Insts :
        /\ i # j
        /\ cc[i].owner # 0 /\ cc[i].owner = cc[j].owner
        /\ cc[i].partID = cc[j].partID
        /\ cc[i].claimed = 0 /\ cc[i].pump = "exited"
        /\ cc[j].claimed = 1 /\ claims[cc[j].owner][cc[j].partID] = j

\* C10: the offsetCurrent of a claim whose flag is released is not written
\* again, and Consumed on a released claim returns false
C10_NoWriteAfterRelease ==
    [][/\ \A i \in Insts :
            (cc[i].owner # 0 /\ cc'[i].owner # 0 /\ cc[i].claimed # 1)
                => cc'[i].offsetCurrent = cc[i].offsetCurrent
       /\ (obj.gen > 0 /\ obj'.gen = obj.gen /\ obj.claimed # 1)
            => /\ obj'.offsetCurrent = obj.offsetCurrent
               /\ kapp.pc = "idle" => kapp'.pc = "idle"]_vars

\* C11: offsetEarliest <= offsetCurrent for every claim of a mapping and for
\* the claim object once it is set up
C11_CursorNotBelowEarliest ==
    /\ \A c \in group : \A i \in Held(c) :
          cc[i].offsetEarliest <= cc[i].offsetCurrent
    /\ (obj.gen > 0 /\ kh.setup) => obj.offsetEarliest <= obj.offsetCurrent

\* C12: a health check that finds the claim healthy (caught up with the
\* partition, or keeping pace with it) leaves cyclesBehind at 0 when it ends,
\* in Consumer.getUnhealthyClaims and in claim.healthCheck alike
C12_HealthyResetsCycles ==
    [][/\ \A c \in group :
            (mgr[c].pc = "health" /\ mgr'[c].pc # "health") =>
               \A i \in Held(c) :
                  (/\ cc[i].claimed = 1
                   /\ \/ cc[i].offsetCurrent >= cc[i].offsetLatest
                      \/ HealthClass(cc[i]) = "ok")
                  => cc'[i].cyclesBehind = 0
       /\ (/\ kw.health = "body" /\ kw'.health = "loop"
           /\ ~HealthExpired
           /\ HealthCaughtUp \/ HealthFastEnough)
          => obj'.cyclesBehind = 0]_vars

\* C13: the lag counter of an active claim is the number of consecutive checks
\* that found it behind (a caught-up or keeping-pace check restarts it at 0),
\* a claim is enlisted for a lag release only with three such checks in a row,
\* and the third of them does enlist it
C13_ThreeConsecutiveBehind ==
    /\ \A c \in group : \A i \in Held(c) :
          cc[i].claimed = 1 => cc[i].cyclesBehind = cc[i].streak
    /\ \A c \in group : mgr[c].pc = "flip" =>
          /\ \A n \in 1..Len(mgr[c].unclaim) :
                cc[mgr[c].unclaim[n]].claimed = 1
                => cc[mgr[c].unclaim[n]].streak >= CyclesLimit
          /\ \A i \in Held(c) :
                (cc[i].claimed = 1 /\ cc[i].streak >= CyclesLimit)
                => i \in Range(mgr[c].unclaim)
    /\ obj.cyclesBehind = obj.streak
    /\ (obj.gen > 0 /\ obj.streak >= CyclesLimit)
       => (kgo.release > 0 \/ krel # 0 \/ obj.claimed = 0)

\* C14: a claim.healthCheck that runs with lastHeartbeat < now -
\* HeartbeatInterval schedules one Release, fires no heartbeat and changes
\* nothing else of the claim, whatever its offsets, velocities and cyclesBehind
C14_ExpiredHeartbeatReleases ==
    [][(/\ kw.health = "body" /\ kw'.health = "loop"
        /\ obj.lastHeartbeat < now - HeartbeatInterval)
       => /\ kgo'.release = kgo.release + 1
          /\ kgo'.heartbeat = kgo.heartbeat
          /\ obj' = obj]_vars

\* an expired check has just ended on a claim that is caught up with its
\* partition: a Release is scheduled and no heartbeat is
C14_Witness ==
    /\ kh.expired /\ kw.health = "loop"
    /\ obj.claimed = 1 /\ obj.lastHeartbeat < now - HeartbeatInterval
    /\ obj.offsetCurrent >= obj.offsetLatest
    /\ kgo.release = 1 /\ kgo.heartbeat = 0

\* C15: under CbBalanced one claim sweep inserts at most one partition into
\* the mapping
C15_BalancedOnePerSweep ==
    \A c \in group : behavior[c] = CbBalanced => mgr[c].added <= 1

\* a Balanced sweep stopped at its first insertion, before it came to the
\* other, unclaimed partition
C15_Witness ==
    \E c \in group :
       /\ behavior[c] = CbBalanced /\ partitions = 2
       /\ mgr[c].pc = "top" /\ mgr[c].added = 1
       /\ Len(mgr[c].visited) = 1 /\ GetCurrentLoad(c) = 1
       /\ \E p \in Parts : claims[c][p] = 0 /\ mHolder[p] = 0

\* C16: a finished claim sweep of a CbAggressive Consumer came to every
\* partition exactly once; if none of its claim attempts failed, every
\* partition it did not pass over as present in the mapping was inserted, so
\* that GetCurrentLoad is the number of partitions (all of them new when none
\* was in the mapping); and no attempt is made on a partition of the mapping
C16_AggressiveClaimsAll ==
    \A c \in group :
       /\ (behavior[c] = CbAggressive /\ mgr[c].pc = "top"
             /\ mgr[c].visited # <<>>)
          => /\ Len(mgr[c].visited) = partitions
             /\ Range(mgr[c].visited) = Parts
             /\ (~mgr[c].failed /\ ~claimsNil[c])
                => /\ mgr[c].added + mgr[c].skipped = partitions
                   /\ GetCurrentLoad(c) = partitions
       /\ mgr[c].pc \in {"try_offsets", "try_claim", "try_hb", "try_insert"}
          => claims[c][SweepPart(c)] = 0

\* an Aggressive sweep over two unclaimed partitions has ended with both in
\* the mapping
C16_Witness ==
    \E c \in group :
       /\ behavior[c] = CbAggressive /\ partitions = 2
       /\ mgr[c].pc = "top" /\ Len(mgr[c].visited) = 2
       /\ ~mgr[c].failed /\ mgr[c].skipped = 0 /\ mgr[c].added = 2
       /\ GetCurrentLoad(c) = 2

\* C17: when ClaimPartition returns false (the step out of "try_claim" that
\* leaves the marshaler's claim table alone), tryClaimPartition returns false
\* and the loop goes on; the partition is not inserted into the mapping, no
\* Heartbeat is sent or scheduled, no pump is started and the consumerClaim is
\* dropped; the partition stays out of the mapping for a later sweep to try
C17_LoserAbandons ==
    [][\A c \in group :
         (/\ mgr[c].pc = "try_claim" /\ mgr'[c].pc # "try_claim"
          /\ mHolder' = mHolder /\ mLastHb' = mLastHb)
         => /\ mgr'[c].pc = "claim" /\ mgr'[c].failed
            /\ mgr'[c].i = mgr[c].i + 1 /\ mgr'[c].added = mgr[c].added
            /\ claims' = claims /\ claims[c][SweepPart(c)] = 0
            /\ committed' = committed /\ hbPending' = hbPending
            /\ cc'[mgr[c].claim] = NoClaim
            /\ \A i \in Insts : cc'[i].pump # "none" => cc'[i] = cc[i]]_vars

\* a Consumer has just lost the race for a partition that the other Consumer
\* of the group holds: nothing of its attempt is left
C17_Witness ==
    \E c \in group : \E p \in Parts :
       /\ mgr[c].pc = "claim" /\ mgr[c].lost /\ mgr[c].visited = <<p>>
       /\ claims[c][p] = 0
       /\ mHolder[p] \in group \ {c} /\ MarshalHeld(p)
       /\ \A i \in Insts : cc[i].owner # c

\* C18: the health sweep that finds a claim whose pump has stored the released
\* flag (offset out of range) takes it out of the mapping, however many claims
\* the Consumer holds, so that the claim sweep after it tries the partition
\* again; and a claim that is won starts no lower than offsetEarliest
C18_OutOfRangeRecovery ==
    [][\A c \in group :
         /\ (mgr[c].pc = "flip" /\ mgr'[c].pc = "release")
            => \A n \in 1..Len(mgr[c].unclaim) :
                  LET i == mgr[c].unclaim[n]
                  IN  (cc[i].claimed = 0 /\ cc[i].pump = "exited")
                      => claims'[c][cc[i].partID] # i
         /\ (mgr[c].pc = "try_claim" /\ mgr'[c].pc = "try_hb")
            => cc'[mgr[c].claim].offsetCurrent
                  >= cc[mgr[c].claim].offsetEarliest]_vars

\* C19: once Terminate has cleared the mapping and the claim sweep that was
\* in flight has finished, no consumerClaim created by the Consumer has its
\* flag active or its pump running, and none is in the mapping
C19_TerminateDiscardsInFlight ==
    \A c \in group :
       (claimsNil[c] /\ mgr[c].pc \in {"top", "exit"})
       => /\ Held(c) = {}
          /\ \A i \in Insts :
                cc[i].owner = c
                => cc[i].claimed = 0 /\ cc[i].pump \in {"none", "exited"}

\* C20: the health sweep calls ReleasePartition only for a claim it has
\* flipped to released and deleted from the mapping; a claim that is in the
\* mapping with its flag active has had no ReleasePartition issued for it
C20_ReleaseOnlyFlipped ==
    /\ \A c \in group : \A i \in Held(c) :
          cc[i].claimed = 1 => relCalls[i] = 0
    /\ \A c \in group :
          (mgr[c].pc = "release" /\ mgr[c].relIdx > 1)
          => LET i == mgr[c].unclaim[mgr[c].relIdx - 1]
             IN  cc[i].claimed = 0 /\ i \notin Held(c)

\* a claim of claim.go whose application has stalled: the log grew to
\* ChanCap + 1 messages, which the first updateOffsets saw; ChanCap of them
\* wait in the channel, the pump holds the last one in c.messages <- msg, and
\* retention has since deleted the log
FullChannel == [n \in 1..ChanCap |-> n - 1]

StalledInit ==
    /\ now = 0
    /\ bEarliest = [p \in PartIDs |-> IF p = ClaimPart THEN ChanCap + 1 ELSE 0]
    /\ bLatest = [p \in PartIDs |-> IF p = ClaimPart THEN ChanCap + 1 ELSE 0]
    /\ committed = [p \in PartIDs |-> 0]
    /\ mHolder = [p \in PartIDs |-> IF p = ClaimPart THEN Me ELSE 0]
    /\ mLastHb = [p \in PartIDs |-> 0]
    /\ claims = [c \in Consumers |-> [p \in PartIDs |-> 0]]
    /\ claimsNil = [c \in Consumers |-> FALSE]
    /\ cc = [i \in Insts |-> NoClaim]
    /\ mgr = [c \in Consumers |-> MgrIdle]
    /\ app = [c \in Consumers |-> AppIdle]
    /\ hbPending = {}
    /\ relCalls = [i \in Insts |-> 0]
    /\ relOff = [i \in Insts |-> 0]
    /\ lastRet = [i \in Insts |-> -1]
    /\ terminateCalls = [c \in Consumers |-> 0]
    /\ obj = [NoObj EXCEPT !.gen = 1, !.claimed = 1,
                           !.messages = FullChannel,
                           !.offsetLatest = ChanCap + 1,
                           !.offsetLatestHistory[0] = ChanCap + 1,
                           !.fetchPos = ChanCap + 1]
    /\ kw = [NoWorkers EXCEPT !.offsets = "loop", !.ctr = 1,
                              !.late = ChanCap + 1, !.health = "loop",
                              !.pump = "send"]
    /\ kgo = [release |-> 0, heartbeat |-> 0]
    /\ krel = 0
    /\ kapp = [pc |-> "idle", off |-> 0]
    /\ kh = [NoHistory EXCEPT !.setup = TRUE]
    /\ lim = [ClaimLimits(0, ChanCap + 1, MaxCtr, MaxReleaseCalls - 1)
                EXCEPT !.stop = StallAfter]

\* the claim of claim.go from its construction, and the stalled claim
LiveInit ==
    /\ \/ /\ InitCommon
          /\ lim \in {ClaimLimits(MaxTime + 1, 0, 0, MaxReleaseCalls - 1),
                      ClaimLimits(0, MaxOffset - 1, MaxCtr - 1, 0)}
       \/ StalledInit
    /\ group = {}
    /\ partitions = 1
    /\ behavior = [c \in Consumers |-> CbAggressive]

\* C21: once the flag of a claim that was set up is released, its offset
\* updater, its health checker and its message pump all exit in the end
C21_WorkersExit ==
    (kh.setup /\ obj.claimed = 0)
       ~> (kw.offsets = "exited" /\ kw.health = "exited"
           /\ kw.pump = "exited")

\* C22: a claim that is behind (offsetCurrent < offsetLatest) does not stay
\* so for ever: either its caller takes the messages and it catches up, or
\* the caller has stalled and a health check schedules its Release
C22_BackpressureReleases ==
    (kh.setup /\ obj.claimed = 1 /\ obj.offsetCurrent < obj.offsetLatest)
       ~> \/ obj.claimed = 0
          \/ kgo.release > 0
          \/ obj.offsetCurrent >= obj.offsetLatest

\* C23: the Consumer never calls the marshaler (GetPartitionOffsets,
\* ClaimPartition, Heartbeat, ReleasePartition) with c.lock held; in
\* particular every ReleasePartition is issued outside the write lock
C23_NoCallUnderLock ==
    \A c \in group : mgr[c].lockedCalls = {}

\* C24: a claim.heartbeat whose Heartbeat call fails (the one that schedules
\* a Release) leaves lastHeartbeat as it was; one that succeeds schedules no
\* Release, sets lastHeartbeat to now and has carried offsetCurrent to the
\* marshaler
C24_HeartbeatOutcome ==
    [][kgo'.heartbeat < kgo.heartbeat =>
         IF kgo'.release > kgo.release
         THEN /\ obj'.lastHeartbeat = obj.lastHeartbeat
              /\ committed' = committed /\ mLastHb' = mLastHb
         ELSE /\ obj'.lastHeartbeat = now
              /\ mLastHb'[ClaimPart] = now
              /\ committed'[ClaimPart] = obj.offsetCurrent]_vars

\* C25: an offset refresh changes nothing of a claim but offsetEarliest,
\* offsetLatest and, in claim.go, the slot ctr % HistoryLen of the two
\* histories; the flag, offsetCurrent, cyclesBehind and lastHeartbeat stay,
\* nothing is released, and a refresh whose fetch fails changes no field
FrameFields ==
    {"offsetEarliest", "offsetLatest", "offsetLatestHistory",
     "offsetCurrentHistory"}

C25_RefreshFrame ==
    [][/\ \A c \in group :
            (mgr[c].pc = "update" /\ mgr'[c].pc # "update")
            => /\ \A i \in Insts :
                     \A f \in DOMAIN cc[i] \ FrameFields :
                        cc'[i][f] = cc[i][f]
               /\ \A i \in Insts \ Held(c) : cc'[i] = cc[i]
               /\ claims' = claims /\ relCalls' = relCalls
               /\ mHolder' = mHolder
       /\ (kw.offsets = "write" /\ kw'.offsets # "write")
          => /\ \A f \in DOMAIN obj \ FrameFields : obj'[f] = obj[f]
             /\ \A n \in 0..(HistoryLen - 1) :
                   n # kw.ctr % HistoryLen
                   => /\ obj'.offsetLatestHistory[n] =
                            obj.offsetLatestHistory[n]
                      /\ obj'.offsetCurrentHistory[n] =
                            obj.offsetCurrentHistory[n]
             /\ kgo' = kgo /\ krel' = krel
       /\ (kw.offsets = "fetch" /\ kw'.offsets = "loop")
          => obj' = obj /\ kgo' = kgo /\ krel' = krel]_vars

\* a refresh of the claim object has written a grown log into its fields and
\* into slot 0 of the history, the claim still being active
C25_Witness ==
    /\ kw.offsets = "loop" /\ kw.ctr = 1 /\ obj.claimed = 1
    /\ obj.offsetLatest > 0
    /\ obj.offsetLatestHistory[0] = obj.offsetLatest
    /\ obj.offsetCurrentHistory[0] = obj.offsetCurrent

\* C26: no Heartbeat is sent to the marshaler for a claim whose flag is
\* released and for which ReleasePartition was issued, neither by the
\* heartbeat goroutine of Consume nor by claim.heartbeat
C26_NoHeartbeatAfterRelease ==
    [][/\ \A h \in hbPending \ hbPending' :
            ~(cc[h.inst].claimed = 0 /\ relCalls[h.inst] > 0)
       /\ kgo'.heartbeat < kgo.heartbeat
          => ~(obj.claimed = 0 /\ kh.rpcs > 0)]_vars

\* C27: the cursor update at the end of Consume advances only the
\* consumerClaim the returned message was dequeued from; the cursor of any
\* other instance, a later claim of the same partition included, stays
C27_StaleMessageSkipped ==
    [][\A c \in group :
         (app[c].pc = "locked" /\ app'[c].pc # "locked")
         => \A i \in Insts :
               cc'[i].offsetCurrent # cc[i].offsetCurrent
               => i = app[c].msg.inst]_vars

Next ==
    \/ Tick
    \/ \E p \in PartIDs : Produce(p)
    \/ \E p \in PartIDs : Truncate(p)
    \/ \E i \in Insts : PumpCheck(i)
    \/ \E i \in Insts : PumpFetch(i)
    \/ \E c \in group : ManageTop(c)
    \/ \E c \in group : Consumer_updateOffsets(c)
    \/ \E c \in group : getUnhealthyClaims(c)
    \/ \E c \in group : FlipUnhealthy(c)
    \/ \E c \in group : ReleaseUnhealthy(c)
    \/ \E c \in group : claimPartitions(c)
    \/ \E c \in group : tryClaim_offsets(c)
    \/ \E c \in group : tryClaim_claim(c)
    \/ \E c \in group : tryClaim_heartbeat(c)
    \/ \E c \in group : tryClaim_insert(c)
    \/ \E c \in group : Terminate(c)
    \/ \E c \in group : ConsumeScan(c)
    \/ \E c \in group : ConsumeLookup(c)
    \/ \E c \in group : ConsumeReturn(c)
    \/ \E h \in hbPending : ConsumeHeartbeat(h)

Spec == Init /\ [][Next]_vars

WideSpec == WideInit /\ [][Next]_vars

GroupSpec == GroupInit /\ [][Next]_vars

ClaimSpec == ClaimInit /\ [][ClaimNext]_vars

\* both layers: a Consumer with its consumerClaims, or a claim of claim.go
SweepSpec == SweepInit /\ [][Next]_vars

\* the claim of claim.go with its goroutines scheduled fairly: a worker or a
\* fired goroutine that can take its next step takes it; the application and
\* the broker are under no obligation
ClaimFairness ==
    /\ WF_vars(messagePump_check) /\ WF_vars(messagePump_fetch)
    /\ WF_vars(messagePump_send)
    /\ WF_vars(updateOffsetsLoop) /\ WF_vars(updateOffsets_fetch)
    /\ WF_vars(updateOffsets_write)
    /\ WF_vars(healthCheckLoop) /\ WF_vars(healthCheck_velocity)
    /\ WF_vars(healthCheck) /\ WF_vars(heartbeat)
    /\ WF_vars(Release_cas /\ kgo'.release < kgo.release)
    /\ WF_vars(Release_rpc) /\ WF_vars(Consumed_store)

LiveSpec == LiveInit /\ [][ClaimNext]_vars /\ ClaimFairness

FullSpec == (WideInit \/ ClaimInit) /\ [][Next \/ ClaimNext]_vars

====
